---- MODULE Spec2Model ----
(***************************************************************************)
(* Model of the kinematic exploration driver (src/src/explore_main.cpp)    *)
(* and of the MeshData constructor (src/src/mesh.cpp).                     *)
(*                                                                         *)
(* Numbers are fixed point.  Lengths are integer multiples of 0.05 length  *)
(* units (LatticePerUnit lattice steps per unit), weights and falloff      *)
(* factors are integer multiples of 1/1000, angles are integer             *)
(* milliradians, the components of unit vectors and of the attitude        *)
(* matrix are integer multiples of 1/1000.                                 *)
(***************************************************************************)
EXTENDS Integers, Sequences, FiniteSets, TLC

\* ------------------------------------------------------------------ bounds
MaxIter == 6

MaxVerts == 3

MaxFaces == 2

\* --------------------------------------------------------- program constants
WScale == 1000
UnitScale == 1000
LatticePerUnit == 20

\* double dist = 5, in lattice steps
dist == 5 * LatticePerUnit

surf_area == 5

\* ------------------------------------------------------------ integer helpers
Abs(x) == IF x < 0 THEN -x ELSE x

Min2(a, b) == IF a < b THEN a ELSE b

Max2(a, b) == IF a > b THEN a ELSE b

\* C++ integer / double-to-fixed conversion truncates toward zero
Quot(a, b) == IF a >= 0 THEN a \div b ELSE -((-a) \div b)

RECURSIVE Gcd(_, _)
Gcd(a, b) == IF b = 0 THEN a ELSE Gcd(b, a % b)

RECURSIVE SqrtSearch(_, _, _)
SqrtSearch(n, lo, hi) ==
  IF lo >= hi THEN lo
  ELSE LET mid == (lo + hi + 1) \div 2
       IN IF mid * mid <= n THEN SqrtSearch(n, mid, hi)
          ELSE SqrtSearch(n, lo, mid - 1)

ISqrt(n) == SqrtSearch(n, 0, Min2(n, 46340))

\* ------------------------------------------------------------- 3-vectors
Zero3 == <<0, 0, 0>>

Add3(a, b) == <<a[1] + b[1], a[2] + b[2], a[3] + b[3]>>

Sub3(a, b) == <<a[1] - b[1], a[2] - b[2], a[3] - b[3]>>

Scale3(k, a) == <<k * a[1], k * a[2], k * a[3]>>

Dot3(a, b) == a[1] * b[1] + a[2] * b[2] + a[3] * b[3]

Cross3(a, b) == <<a[2] * b[3] - a[3] * b[2],
                  a[3] * b[1] - a[1] * b[3],
                  a[1] * b[2] - a[2] * b[1]>>

Norm2(a) == Dot3(a, a)

\* the shortest integer vector of the direction of a
Primitive(a) ==
  LET g == Gcd(Gcd(Abs(a[1]), Abs(a[2])), Abs(a[3]))
  IN IF g = 0 THEN Zero3 ELSE <<Quot(a[1], g), Quot(a[2], g), Quot(a[3], g)>>

\* a / b rounded to the nearest integer, b > 0
RoundQuot(a, b) == IF a >= 0 THEN (2 * a + b) \div (2 * b) ELSE -((2 * (-a) + b) \div (2 * b))

\* a / ||a|| with components in 1/UnitScale
Normalize(a) ==
  LET r == Primitive(a)
      n == ISqrt(Norm2(r) * 10000)
  IN IF n = 0 THEN Zero3
     ELSE <<RoundQuot(r[1] * 100 * UnitScale, n),
            RoundQuot(r[2] * 100 * UnitScale, n),
            RoundQuot(r[3] * 100 * UnitScale, n)>>

\* atan(t/1000) in milliradians for 0 <= t <= 1000 : x / (1 + 0.28 x^2)
AtanSmall(t) == (t * 1000) \div (1000 + (28 * t * t) \div 100000)

\* pi/2 and pi in milliradians, as 2 atan(1) and 4 atan(1)
HalfPiMrad == 2 * AtanSmall(1000)

PiMrad == 2 * HalfPiMrad

\* atan(t/1000) in milliradians, t >= 0
AtanMrad(t) ==
  IF t <= 1000 THEN AtanSmall(t)
  ELSE HalfPiMrad - AtanSmall(1000000 \div t)

\* arccos(clamp(u.v / (|u||v|), -1, 1)) in milliradians, through
\* tan(alpha) = |u x v| / (u . v)
AngularDistance(u, v) ==
  LET d == Dot3(u, v)
      s == ISqrt(100 * Norm2(Cross3(u, v)))
  IN IF d = 0 THEN (IF s = 0 THEN 0 ELSE HalfPiMrad)
     ELSE IF d > 0 THEN AtanMrad((s * 100) \div d)
     ELSE PiMrad - AtanMrad((s * 100) \div (-d))

\* ------------------------------------------------------- sequence helpers
SeqSum(w) ==
  LET RECURSIVE Go(_)
      Go(k) == IF k = 0 THEN 0 ELSE w[k] + Go(k - 1)
  IN Go(Len(w))

Ones(n) == [i \in 1..n |-> WScale]

\* ------------------------------------------------------------------ State
ez == <<0, 0, 1>>

ey == <<0, 1, 0>>

Identity3 == <<<<UnitScale, 0, 0>>, <<0, UnitScale, 0>>, <<0, 0, UnitScale>>>>

\* a default-constructed State
DefaultState == [pos |-> Zero3, vel |-> Zero3, att |-> Identity3, ang_vel |-> Zero3]

\* State::update_state copies every field of the argument
update_state(old, new) ==
  [pos |-> new.pos, vel |-> new.vel, att |-> new.att, ang_vel |-> new.ang_vel]

\* State::get_state : the row p(3), v(3), R_flat(9), w(3)
get_state(s) == s.pos \o s.vel \o s.att[1] \o s.att[2] \o s.att[3] \o s.ang_vel

\* ----------------------------------------------------------------- Sensor
\* Lidar::define_target : t = p + d * R * e_view, e_view the body +x axis;
\* att is held as its three columns, so R * e_x is the first column
define_target(p, R, d) ==
  <<p[1] + RoundQuot(d * R[1][1], UnitScale),
    p[2] + RoundQuot(d * R[1][2], UnitScale),
    p[3] + RoundQuot(d * R[1][3], UnitScale)>>

\* -------------------------------------------------------------- RayCaster
\* the mesh is sampled at its vertices; a sample is on the ray when it lies
\* forward of the source within 10 mrad of the ray direction, the rounding
\* of a target to the lattice
OnRay(x, ps, dir) ==
  /\ Dot3(Sub3(x, ps), dir) > 0
  /\ Norm2(Cross3(Sub3(x, ps), dir)) <= (Norm2(Sub3(x, ps)) * Norm2(dir)) \div 10000

Forward(ps, dir, pts) == {x \in pts : OnRay(x, ps, dir)}

\* RayCaster::castray : the forward intersection closest to the source, the
\* zero vector when the ray misses or has no direction
castray(ps, pt, pts) ==
  LET dir == Sub3(pt, ps)
      hits == Forward(ps, dir, pts)
  IN IF dir = Zero3 \/ hits = {} THEN Zero3
     ELSE CHOOSE x \in hits :
            \A y \in hits : Norm2(Sub3(x, ps)) <= Norm2(Sub3(y, ps))

\* ---------------------------------------------------- ReconstructionEngine
Alpha(q, verts) == [i \in 1..Len(verts) |-> AngularDistance(q, verts[i])]

\* argmin alpha_i, smallest index among equals
Nearest(alpha) ==
  CHOOSE i \in DOMAIN alpha :
    \A j \in DOMAIN alpha : alpha[i] < alpha[j] \/ (alpha[i] = alpha[j] /\ i <= j)

\* R = {i : alpha_i <= theta_max}, the single nearest vertex when that is empty
Region(alpha, theta_max) ==
  LET R == {i \in DOMAIN alpha : alpha[i] <= theta_max}
  IN IF R = {} THEN {Nearest(alpha)} ELSE R

\* f_i = 1 - alpha_i / theta_max, clamped to [0, 1]
Falloff(a, theta_max) ==
  Max2(0, Min2(WScale, WScale - (a * WScale) \div theta_max))

\* v_i + f_i * w_i * (q - v_i)
Blend(v, q, f, w) ==
  LET d == Sub3(q, v)
  IN <<v[1] + Quot(f * w * d[1], WScale * WScale),
       v[2] + Quot(f * w * d[2], WScale * WScale),
       v[3] + Quot(f * w * d[3], WScale * WScale)>>

\* the factor assigned instead of multiplied in
Decay_Assign(w, f) == Max2(0, Min2(WScale, WScale - f))

\* w_i * (1 - f_i), clamped to [0, 1]
Decay(w, f) == Max2(0, Min2(WScale, (w * (WScale - f)) \div WScale))

\* ReconstructMesh::single_update : [verts, weights] after folding q in;
\* an observation at the origin is skipped
single_update(q, theta_max, verts, weights) ==
  IF q = Zero3 THEN [verts |-> verts, weights |-> weights]
  ELSE LET alpha == Alpha(q, verts)
           R == Region(alpha, theta_max)
       IN [verts |-> [i \in DOMAIN verts |->
                        IF i \in R
                        THEN Blend(verts[i], q, Falloff(alpha[i], theta_max), weights[i])
                        ELSE verts[i]],
           weights |-> [i \in DOMAIN weights |->
                        IF i \in R
                        THEN Decay(weights[i], Falloff(alpha[i], theta_max))
                        ELSE weights[i]]]

\* ------------------------------------------------------------- Controller
\* i* = argmax w_i, smallest index among equals
ArgMaxWeight(w) ==
  CHOOSE i \in DOMAIN w :
    \A j \in DOMAIN w : w[i] > w[j] \/ (w[i] = w[j] /\ i <= j)

\* up vector: inertial +z unless the view axis is colinear with it, then +y
\* (on the lattice |e.z| > 1 - 1e-6 happens only at exact colinearity)
UpReference(view) == IF Cross3(view, ez) = Zero3 THEN ey ELSE ez

Det3(c1, c2, c3) == Dot3(c1, Cross3(c2, c3))

\* R* with columns (e_view, e_right, e_up), Gram-Schmidt on the up reference,
\* e_up flipped when the determinant is negative; the basis is built on
\* integer direction vectors and each column is then normalized
DesiredAttitude(p, v) ==
  LET view == Primitive(Sub3(v, p))
      ref == UpReference(view)
      up == Primitive(Sub3(Scale3(Norm2(view), ref), Scale3(Dot3(ref, view), view)))
      right == Primitive(Cross3(up, view))
  IN IF Det3(view, right, up) < 0
     THEN <<Normalize(view), Normalize(right), Normalize(Scale3(-1, up))>>
     ELSE <<Normalize(view), Normalize(right), Normalize(up)>>

\* Controller::explore_asteroid followed by get_desired_state
explore_asteroid(s, verts, weights) ==
  [pos |-> s.pos, vel |-> Zero3,
   att |-> DesiredAttitude(s.pos, verts[ArgMaxWeight(weights)]),
   ang_vel |-> Zero3]

\* ------------------------------------------------- bundled configurations
AsteroidNames == {"castalia", "geographos", "golevka", "52760"}

\* semi-axes (already halved) and initial position, in lattice units
Config(name) ==
  IF name = "castalia" THEN [axes |-> <<16, 10, 8>>, initial_pos |-> <<30, 0, 0>>]
  ELSE IF name = "geographos" THEN [axes |-> <<50, 20, 21>>, initial_pos |-> <<100, 0, 0>>]
  ELSE IF name = "golevka" THEN [axes |-> <<8, 8, 8>>, initial_pos |-> <<20, 0, 0>>]
  ELSE [axes |-> <<11, 11, 11>>, initial_pos |-> <<30, 0, 0>>]

\* max_angle = pow(surf_area / (axes[0] * axes[0]), 0.5), in milliradians
\* (surf_area is in 1e-3, a lattice unit is 0.05)
MaxAngle(ax) == ISqrt((surf_area * 400000) \div (ax[1] * ax[1]))

\* ------------------------------------------------- external collaborators
SeedKinds == {"octa", "cap"}

TruthKinds == {"same", "shrunk", "deep"}

\* SurfMesh(a, b, c, ...) : a coarse seed on the ellipsoid with semi-axes ax
SeedVerts(kind, ax) ==
  IF kind = "octa"
  THEN << <<ax[1], 0, 0>>, <<-ax[1], 0, 0>>, <<0, ax[2], 0>>,
          <<0, -ax[2], 0>>, <<0, 0, ax[3]>>, <<0, 0, -ax[3]>> >>
  ELSE << <<ax[1], 0, 0>>, <<ax[1], 1, 0>>, <<ax[1], 0, 1>> >>

SeedFaces(kind) ==
  IF kind = "octa"
  THEN << <<0, 2, 4>>, <<2, 1, 4>>, <<1, 3, 4>>, <<3, 0, 4>>,
          <<2, 0, 5>>, <<1, 2, 5>>, <<3, 1, 5>>, <<0, 3, 5>> >>
  ELSE << <<0, 1, 2>> >>

\* Loader::load(path) : the vertices of the shape model file.  "same" is the
\* seed itself, "shrunk" an octahedron 4 lattice units inside the seed axes,
\* "deep" the seed vertices pushed to twice their distance from pos
TruthVerts(kind, seedkind, ax, pos) ==
  IF kind = "same" THEN SeedVerts(seedkind, ax)
  ELSE IF kind = "shrunk"
  THEN << <<ax[1] - 4, 0, 0>>, <<-(ax[1] - 4), 0, 0>>, <<0, ax[2] - 4, 0>>,
          <<0, -(ax[2] - 4), 0>>, <<0, 0, ax[3] - 4>>, <<0, 0, -(ax[3] - 4)>> >>
  ELSE [i \in DOMAIN SeedVerts(seedkind, ax) |->
          Add3(pos, Scale3(2, Sub3(SeedVerts(seedkind, ax)[i], pos)))]

TruthFaces(kind, seedkind) ==
  IF kind = "shrunk" THEN SeedFaces("octa") ELSE SeedFaces(seedkind)

Range(f) == {f[i] : i \in DOMAIN f}

\* HDF5 write of a dataset under a name
Write(g, name, data) ==
  [k \in DOMAIN g \cup {name} |-> IF k = name THEN data ELSE g[k]]

NoData == [k \in {} |-> 0]

\* ------------------------------------------------------------------ state
VARIABLES pc, opt_h, output_file, ast_name, seed_kind, truth_kind,
          exit_code, usage, axes, initial_pos, true_verts, true_faces,
          rverts, rfaces, rweights, max_angle, file_open,
          state, target, intersection, sum_weights, ii,
          root, g_vertex, g_weight, g_state, g_targets, g_intersections,
          m_pc, arg_V, arg_F, vertices, faces, polyhedron, surface_mesh,
          vertex_descriptor, face_descriptor, m_ii

vars == <<pc, opt_h, output_file, ast_name, seed_kind, truth_kind,
          exit_code, usage, axes, initial_pos, true_verts, true_faces,
          rverts, rfaces, rweights, max_angle, file_open,
          state, target, intersection, sum_weights, ii,
          root, g_vertex, g_weight, g_state, g_targets, g_intersections,
          m_pc, arg_V, arg_F, vertices, faces, polyhedron, surface_mesh,
          vertex_descriptor, face_descriptor, m_ii>>

mesh == <<m_pc, arg_V, arg_F, vertices, faces, polyhedron, surface_mesh,
          vertex_descriptor, face_descriptor, m_ii>>

inputs == <<opt_h, output_file, ast_name, seed_kind, truth_kind>>

config == <<axes, initial_pos, true_verts, true_faces>>

rmesh == <<rverts, rfaces, rweights>>

groups == <<g_vertex, g_weight, g_state, g_targets, g_intersections>>

\* main() before its first statement, whatever the command line
MainStart ==
  /\ exit_code = -1
  /\ usage = FALSE
  /\ axes = Zero3
  /\ initial_pos = Zero3
  /\ true_verts = <<>>
  /\ true_faces = <<>>
  /\ rverts = <<>>
  /\ rfaces = <<>>
  /\ rweights = <<>>
  /\ max_angle = 0
  /\ file_open = FALSE
  /\ state = DefaultState
  /\ target = Zero3
  /\ intersection = Zero3
  /\ sum_weights = 0
  /\ ii = 0
  /\ root = NoData
  /\ g_vertex = NoData
  /\ g_weight = NoData
  /\ g_state = NoData
  /\ g_targets = NoData
  /\ g_intersections = NoData

\* a MeshData object before its constructor runs
EmptySurfaceMesh == [num_vertices |-> 0, faces |-> <<>>]

MeshStart ==
  /\ polyhedron = FALSE
  /\ surface_mesh = EmptySurfaceMesh
  /\ vertex_descriptor = <<>>
  /\ face_descriptor = <<>>
  /\ m_ii = 0

Init ==
  /\ pc = "start"
  /\ opt_h \in BOOLEAN
  /\ output_file \in {"", "data.hdf5"}
  /\ ast_name \in AsteroidNames \cup {"", "vesta"}
  /\ seed_kind \in SeedKinds
  /\ truth_kind \in TruthKinds
  /\ MainStart
  /\ m_pc = "idle"
  /\ arg_V = <<>>
  /\ arg_F = <<>>
  /\ vertices = <<>>
  /\ faces = <<>>
  /\ MeshStart

\* --------------------------------------------------------------- main()
\* lines 26-32 : -h prints the usage and returns
ParseHelp ==
  /\ pc = "start"
  /\ IF opt_h
     THEN /\ usage' = TRUE
          /\ exit_code' = 1
          /\ pc' = "done"
     ELSE /\ pc' = "opt_o"
          /\ UNCHANGED <<usage, exit_code>>
  /\ UNCHANGED <<mesh, inputs, config, rmesh, max_angle, file_open, state, target,
                 intersection, sum_weights, ii, root, groups>>

\* lines 34-39 : the output file name is required
CheckOutput ==
  /\ pc = "opt_o"
  /\ IF output_file = ""
     THEN /\ exit_code' = 1
          /\ pc' = "done"
     ELSE /\ pc' = "opt_n"
          /\ UNCHANGED exit_code
  /\ UNCHANGED <<mesh, inputs, usage, config, rmesh, max_angle, file_open, state,
                 target, intersection, sum_weights, ii, root, groups>>

\* lines 41-46 : the asteroid name is required
CheckName ==
  /\ pc = "opt_n"
  /\ IF ast_name = ""
     THEN /\ exit_code' = 1
          /\ pc' = "done"
     ELSE /\ pc' = "config"
          /\ UNCHANGED exit_code
  /\ UNCHANGED <<mesh, inputs, usage, config, rmesh, max_angle, file_open, state,
                 target, intersection, sum_weights, ii, root, groups>>

\* lines 54-93 : select the bundled configuration and load the truth mesh
Configure ==
  /\ pc = "config"
  /\ IF ast_name \in AsteroidNames
     THEN /\ axes' = Config(ast_name).axes
          /\ initial_pos' = Config(ast_name).initial_pos
          /\ true_verts' = TruthVerts(truth_kind, seed_kind, Config(ast_name).axes,
                                    Config(ast_name).initial_pos)
          /\ true_faces' = TruthFaces(truth_kind, seed_kind)
          /\ pc' = "construct"
          /\ UNCHANGED exit_code
     ELSE /\ exit_code' = 1
          /\ pc' = "done"
          /\ UNCHANGED config
  /\ UNCHANGED <<mesh, inputs, usage, rmesh, max_angle, file_open, state, target,
                 intersection, sum_weights, ii, root, groups>>

\* lines 95-107 : caster, seed ellipsoid, reconstruction mesh (weights all
\* ones), controller, sensor, angular tolerance
Construct ==
  /\ pc = "construct"
  /\ rverts' = SeedVerts(seed_kind, axes)
  /\ rfaces' = SeedFaces(seed_kind)
  /\ rweights' = Ones(Len(SeedVerts(seed_kind, axes)))
  /\ max_angle' = MaxAngle(axes)
  /\ pc' = "open"
  /\ UNCHANGED <<mesh, inputs, exit_code, usage, config, file_open, state, target,
                 intersection, sum_weights, ii, root, groups>>

\* lines 110-118 : create (truncate) the output file and its groups
OpenFile ==
  /\ pc = "open"
  /\ file_open' = TRUE
  /\ root' = NoData
  /\ g_vertex' = NoData
  /\ g_weight' = NoData
  /\ g_state' = NoData
  /\ g_targets' = NoData
  /\ g_intersections' = NoData
  /\ pc' = "init_state"
  /\ UNCHANGED <<mesh, inputs, exit_code, usage, config, rmesh, max_angle, state,
                 target, intersection, sum_weights, ii>>

\* lines 122-136 : place the satellite at initial_pos with identity attitude,
\* then point it at the body with the controller
InitialState ==
  [pos |-> initial_pos, vel |-> Zero3, att |-> Identity3, ang_vel |-> Zero3]

\* the initial pose without the controller call of lines 134-136
InitState_NoController ==
  /\ pc = "init_state"
  /\ state' = update_state(DefaultState, InitialState)
  /\ pc' = "write_root"
  /\ UNCHANGED <<mesh, inputs, exit_code, usage, config, rmesh, max_angle, file_open,
                 target, intersection, sum_weights, ii, root, groups>>

InitState ==
  /\ pc = "init_state"
  /\ state' = update_state(update_state(DefaultState, InitialState),
                           explore_asteroid(update_state(DefaultState, InitialState),
                                            rverts, rweights))
  /\ pc' = "write_root"
  /\ UNCHANGED <<mesh, inputs, exit_code, usage, config, rmesh, max_angle, file_open,
                 target, intersection, sum_weights, ii, root, groups>>

\* lines 143-150 : save the truth, the initial estimate and the initial state
WriteRoot ==
  /\ pc = "write_root"
  /\ root' = Write(Write(Write(Write(Write(Write(root,
                "truth_vertex", true_verts),
                "truth_faces", true_faces),
                "initial_vertex", rverts),
                "initial_faces", rfaces),
                "initial_weight", rweights),
                "initial_state", get_state(state))
  /\ pc' = "loop_init"
  /\ UNCHANGED <<mesh, inputs, exit_code, usage, config, rmesh, max_angle, file_open,
                 state, target, intersection, sum_weights, ii, groups>>

\* lines 153-154
LoopInit ==
  /\ pc = "loop_init"
  /\ sum_weights' = SeqSum(rweights)
  /\ ii' = 0
  /\ pc' = "test"
  /\ UNCHANGED <<mesh, inputs, exit_code, usage, config, rmesh, max_angle, file_open,
                 state, target, intersection, root, groups>>

\* 1e-2 in weight units
Threshold == WScale \div 100

\* line 155 : while (sum_weights > 1e-2)
LoopCondition == sum_weights > Threshold

LoopTest ==
  /\ pc = "test"
  /\ IF LoopCondition THEN ii < MaxIter /\ pc' = "sense" ELSE pc' = "return"
  /\ UNCHANGED <<mesh, inputs, exit_code, usage, config, rmesh, max_angle, file_open,
                 state, target, intersection, sum_weights, ii, root, groups>>

\* lines 157-158
Sense ==
  /\ pc = "sense"
  /\ target' = define_target(state.pos, state.att, dist)
  /\ pc' = "cast"
  /\ UNCHANGED <<mesh, inputs, exit_code, usage, config, rmesh, max_angle, file_open,
                 state, intersection, sum_weights, ii, root, groups>>

\* line 161
Cast ==
  /\ pc = "cast"
  /\ intersection' = castray(state.pos, target, Range(true_verts))
  /\ pc' = "update"
  /\ UNCHANGED <<mesh, inputs, exit_code, usage, config, rmesh, max_angle, file_open,
                 state, target, sum_weights, ii, root, groups>>

\* line 164
Update ==
  /\ pc = "update"
  /\ rverts' = single_update(intersection, max_angle, rverts, rweights).verts
  /\ rweights' = single_update(intersection, max_angle, rverts, rweights).weights
  /\ pc' = "control"
  /\ UNCHANGED <<mesh, inputs, exit_code, usage, config, rfaces, max_angle, file_open,
                 state, target, intersection, sum_weights, ii, root, groups>>

\* lines 166-169
Control ==
  /\ pc = "control"
  /\ state' = update_state(state, explore_asteroid(state, rverts, rweights))
  /\ pc' = "record"
  /\ UNCHANGED <<mesh, inputs, exit_code, usage, config, rmesh, max_angle, file_open,
                 target, intersection, sum_weights, ii, root, groups>>

\* an intersection dataset written only when the ray hit
Record_HitsOnly ==
  /\ pc = "record"
  /\ g_vertex' = Write(g_vertex, ii, rverts)
  /\ g_weight' = Write(g_weight, ii, rweights)
  /\ g_state' = Write(g_state, ii, get_state(state))
  /\ g_targets' = Write(g_targets, ii, target)
  /\ g_intersections' = IF intersection = Zero3 THEN g_intersections
                        ELSE Write(g_intersections, ii, intersection)
  /\ pc' = "advance"
  /\ UNCHANGED <<mesh, inputs, exit_code, usage, config, rmesh, max_angle, file_open,
                 state, target, intersection, sum_weights, ii, root>>

\* lines 171-177
Record ==
  /\ pc = "record"
  /\ g_vertex' = Write(g_vertex, ii, rverts)
  /\ g_weight' = Write(g_weight, ii, rweights)
  /\ g_state' = Write(g_state, ii, get_state(state))
  /\ g_targets' = Write(g_targets, ii, target)
  /\ g_intersections' = Write(g_intersections, ii, intersection)
  /\ pc' = "advance"
  /\ UNCHANGED <<mesh, inputs, exit_code, usage, config, rmesh, max_angle, file_open,
                 state, target, intersection, sum_weights, ii, root>>

\* the step without the refresh of sum_weights of line 179
Advance_StaleSum ==
  /\ pc = "advance"
  /\ ii' = ii + 1
  /\ pc' = "test"
  /\ UNCHANGED <<mesh, inputs, exit_code, usage, config, rmesh, max_angle, file_open,
                 state, target, intersection, sum_weights, root, groups>>

\* the step with the index advanced by two
Advance_SkipIndex ==
  /\ pc = "advance"
  /\ sum_weights' = SeqSum(rweights)
  /\ ii' = ii + 2
  /\ pc' = "test"
  /\ UNCHANGED <<mesh, inputs, exit_code, usage, config, rmesh, max_angle, file_open,
                 state, target, intersection, root, groups>>

\* lines 179-180
Advance ==
  /\ pc = "advance"
  /\ sum_weights' = SeqSum(rweights)
  /\ ii' = ii + 1
  /\ pc' = "test"
  /\ UNCHANGED <<mesh, inputs, exit_code, usage, config, rmesh, max_angle, file_open,
                 state, target, intersection, root, groups>>

\* line 184
Return ==
  /\ pc = "return"
  /\ exit_code' = 0
  /\ pc' = "done"
  /\ UNCHANGED <<mesh, inputs, usage, config, rmesh, max_angle, file_open, state,
                 target, intersection, sum_weights, ii, root, groups>>

Next ==
  \/ ParseHelp
  \/ CheckOutput
  \/ CheckName
  \/ Configure
  \/ Construct
  \/ OpenFile
  \/ InitState
  \/ WriteRoot
  \/ LoopInit
  \/ LoopTest
  \/ Sense
  \/ Cast
  \/ Update
  \/ Control
  \/ Record
  \/ Advance
  \/ Return

Spec == Init /\ [][Next]_vars

\* ------------------------------------------------------------ properties
InLoopBody == pc \in {"sense", "cast", "update", "control", "record", "advance"}

LoopExited == pc = "return" \/ (pc = "done" /\ exit_code = 0)

\* the pose stored in a recorded state row
RowPos(row) == SubSeq(row, 1, 3)

RowAtt(row) == <<SubSeq(row, 7, 9), SubSeq(row, 10, 12), SubSeq(row, 13, 15)>>

\* the estimate an iteration started from: the previous recorded one, or
\* the initial one
PrevVerts(i) == IF i = 0 THEN root["initial_vertex"] ELSE g_vertex[i - 1]

PrevWeights(i) == IF i = 0 THEN root["initial_weight"] ELSE g_weight[i - 1]

PrevState(i) == IF i = 0 THEN root["initial_state"] ELSE g_state[i - 1]

\* C1: the loop condition is evaluated on the current weights (before
\* iteration 0 and after each completed iteration); an iteration starts only
\* with weight_sum() > 1e-2, and once the loop has exited weight_sum() <= 1e-2
C1_LoopGuard ==
  /\ pc = "test" => sum_weights = SeqSum(rweights)
  /\ pc = "sense" => SeqSum(rweights) > Threshold
  /\ LoopExited => SeqSum(rweights) <= Threshold

C1_Witness == pc = "done" /\ exit_code = 0 /\ ii >= 2

\* C2: with -h the usage is printed and the process exits with code 0,
\* without loading a mesh, creating the output file or iterating
C2_HelpExitsZero ==
  (pc = "done" /\ opt_h) =>
    /\ usage
    /\ exit_code = 0
    /\ true_verts = <<>>
    /\ ~file_open
    /\ ii = 0

\* C3: an iteration whose ray cast missed records the zero vector, leaves the
\* estimate vertices, the weights and weight_sum() as they were before the
\* iteration, writes all five datasets under its index and goes on to the
\* next termination test
C3_MissRecorded ==
  (pc = "advance" /\ intersection = Zero3) =>
    /\ ii \in DOMAIN g_vertex /\ ii \in DOMAIN g_weight /\ ii \in DOMAIN g_state
    /\ ii \in DOMAIN g_targets /\ ii \in DOMAIN g_intersections
    /\ g_intersections[ii] = Zero3
    /\ g_vertex[ii] = PrevVerts(ii) /\ rverts = PrevVerts(ii)
    /\ g_weight[ii] = PrevWeights(ii) /\ rweights = PrevWeights(ii)
    /\ SeqSum(rweights) = sum_weights
    /\ exit_code = -1
    /\ ENABLED Advance

C3_Witness ==
  /\ pc = "advance" /\ intersection = Zero3 /\ ii >= 1
  /\ Forward(state.pos, Sub3(target, state.pos), Range(true_verts)) = {}

\* C4: for every recorded iteration i, target i and intersection i are the
\* target and ray cast computed from the pose recorded as state i, and the
\* recorded estimate i is the previous estimate with intersection i folded in
C4_RecordConsistent ==
  \A i \in DOMAIN g_intersections :
    /\ g_targets[i] = define_target(RowPos(g_state[i]), RowAtt(g_state[i]), dist)
    /\ g_intersections[i] =
         castray(RowPos(g_state[i]), g_targets[i], Range(true_verts))
    /\ g_vertex[i] =
         single_update(g_intersections[i], max_angle, PrevVerts(i), PrevWeights(i)).verts
    /\ g_weight[i] =
         single_update(g_intersections[i], max_angle, PrevVerts(i), PrevWeights(i)).weights

RootNames == {"truth_vertex", "truth_faces", "initial_vertex", "initial_faces",
              "initial_weight", "initial_state"}

Recorded == IF pc = "advance" THEN 0..ii ELSE 0..(ii - 1)

\* C5: the six root datasets are written before the first iteration, from
\* the unmodified seed, and each of the five groups holds exactly the
\* datasets 0..n-1 after n iterations
C5_RecordLayout ==
  /\ (pc \in {"loop_init", "test", "return"} \/ InLoopBody \/ LoopExited) =>
       /\ DOMAIN root = RootNames
       /\ root["initial_vertex"] = SeedVerts(seed_kind, axes)
       /\ root["initial_weight"] = Ones(Len(SeedVerts(seed_kind, axes)))
       /\ root["truth_vertex"] = true_verts
       /\ DOMAIN g_vertex = Recorded
       /\ DOMAIN g_weight = Recorded
       /\ DOMAIN g_state = Recorded
       /\ DOMAIN g_targets = Recorded
       /\ DOMAIN g_intersections = Recorded
  /\ ~(pc \in {"loop_init", "test", "return"} \/ InLoopBody \/ LoopExited) =>
       DOMAIN g_vertex = {} /\ DOMAIN g_intersections = {} /\ ii = 0

C5_Witness == pc = "test" /\ ii >= 3

\* C6: every weight stays in [0, 1] and never increases from one step to
\* the next, and weight_sum() as read by the loop never increases
C6_WeightsMonotone ==
  [][/\ \A i \in DOMAIN rweights :
          /\ rweights[i] \in 0..WScale
          /\ rweights'[i] \in 0..WScale
          /\ rweights'[i] <= rweights[i]
     /\ pc = "advance" => sum_weights' <= sum_weights]_vars

C6_Witness ==
  /\ pc = "control"
  /\ \E i \in DOMAIN rweights : rweights[i] > 0 /\ rweights[i] < WScale

\* C8: a valid observation whose angular distance to every vertex exceeds
\* theta_max changes the nearest vertex (a weight of 1 strictly decreases)
\* and no other vertex
C8_NearestUpdated ==
  (/\ pc = "update"
   /\ intersection # Zero3
   /\ \A i \in DOMAIN rverts : AngularDistance(intersection, rverts[i]) > max_angle) =>
    LET r == single_update(intersection, max_angle, rverts, rweights)
        n == Nearest(Alpha(intersection, rverts))
    IN /\ r.verts[n] # rverts[n] \/ r.weights[n] # rweights[n]
       /\ rweights[n] = WScale => r.weights[n] < WScale
       /\ \A j \in DOMAIN rverts \ {n} :
            r.verts[j] = rverts[j] /\ r.weights[j] = rweights[j]

\* C9: the controller aims at the vertex of maximum weight, the smallest
\* index among equals; the call before the loop aims at vertex 0
C9_TargetsMaxWeight ==
  /\ pc \in {"write_root", "record"} =>
       \E i \in DOMAIN rweights :
         /\ \A j \in DOMAIN rweights : rweights[j] <= rweights[i]
         /\ \A j \in DOMAIN rweights : j < i => rweights[j] < rweights[i]
         /\ state.att[1] = Normalize(Sub3(rverts[i], state.pos))
  /\ pc = "write_root" =>
       /\ state.pos = initial_pos
       /\ state.att[1] = Normalize(Sub3(rverts[1], initial_pos))

C9_Witness ==
  /\ pc = "record"
  /\ \E i, j \in DOMAIN rweights :
       i < j /\ rweights[i] = rweights[j] /\ rweights[i] > 0
       /\ \A k \in DOMAIN rweights : rweights[k] <= rweights[i]

\* C10: the loop makes progress: while it continues, a completed iteration
\* never leaves the estimate and the pose as they were, so it cannot repeat
\* the same iteration forever
C10_NoStall ==
  (pc = "test" /\ ii >= 1 /\ LoopCondition) =>
    \/ g_vertex[ii - 1] # PrevVerts(ii - 1)
    \/ g_weight[ii - 1] # PrevWeights(ii - 1)
    \/ g_state[ii - 1] # PrevState(ii - 1)

\* ------------------------------------------------------ MeshData (mesh.cpp)
main_vars == <<pc, inputs, exit_code, usage, config, rmesh, max_angle,
               file_open, state, target, intersection, sum_weights, ii,
               root, groups>>

\* vertex rows handed to the constructor
VertexPool == << <<1, 0, 0>>, <<0, 1, 0>>, <<0, 0, 1>>, <<-1, 0, 0>>, <<0, -1, 0>> >>

\* face rows handed to the constructor: well formed, repeated index,
\* index past the last vertex, negative index
FaceRows(n) ==
  {<<0, 1, 2>>, <<2, 1, 0>>, <<0, 1, 1>>, <<1, 1, 1>>, <<0, 1, n>>, <<0, -1, 1>>}

SeqsUpTo(S, k) == UNION {[1..m -> S] : m \in 1..k}

InitMesh ==
  /\ pc = "mesh"
  /\ opt_h = FALSE /\ output_file = "" /\ ast_name = ""
  /\ seed_kind = "cap" /\ truth_kind = "same"
  /\ MainStart
  /\ m_pc = "ctor"
  /\ \E n \in 3..MaxVerts :
       /\ arg_V = SubSeq(VertexPool, 1, n)
       /\ arg_F \in SeqsUpTo(FaceRows(n), MaxFaces)
  /\ vertices = <<>>
  /\ faces = <<>>
  /\ MeshStart

InRange(k, n) == k >= 0 /\ k < n

\* lines 8-9 : copy V and F into the object
MeshData ==
  /\ m_pc = "ctor"
  /\ vertices' = arg_V
  /\ faces' = arg_F
  /\ m_pc' = "build_polyhedron"
  /\ UNCHANGED <<main_vars, arg_V, arg_F, polyhedron, surface_mesh,
                 vertex_descriptor, face_descriptor, m_ii>>

\* lines 15-18 : eigen_to_polyhedron fills the polyhedron
build_polyhedron ==
  /\ m_pc = "build_polyhedron"
  /\ polyhedron' = TRUE
  /\ m_ii' = 0
  /\ m_pc' = "add_vertices"
  /\ UNCHANGED <<main_vars, arg_V, arg_F, vertices, faces, surface_mesh,
                 vertex_descriptor, face_descriptor>>

\* lines 35-40 : one pass of the vertex loop
AddVertex ==
  /\ m_pc = "add_vertices"
  /\ m_ii < Len(vertices)
  /\ surface_mesh' = [surface_mesh EXCEPT !.num_vertices = @ + 1]
  /\ vertex_descriptor' = Append(vertex_descriptor, surface_mesh.num_vertices)
  /\ m_ii' = m_ii + 1
  /\ UNCHANGED <<main_vars, m_pc, arg_V, arg_F, vertices, faces, polyhedron,
                 face_descriptor>>

\* line 35 fails, line 45 initialises the face loop
VerticesDone ==
  /\ m_pc = "add_vertices"
  /\ ~(m_ii < Len(vertices))
  /\ m_ii' = 0
  /\ m_pc' = "add_faces"
  /\ UNCHANGED <<main_vars, arg_V, arg_F, vertices, faces, polyhedron,
                 surface_mesh, vertex_descriptor, face_descriptor>>

\* Surface_mesh::add_face : a face with a repeated or unknown vertex is not
\* added (null_face is returned and ignored by the caller)
add_face(sm, v1, v2, v3) ==
  IF /\ Cardinality({v1, v2, v3}) = 3
     /\ \A v \in {v1, v2, v3} : InRange(v, sm.num_vertices)
  THEN [sm EXCEPT !.faces = Append(@, <<v1, v2, v3>>)]
  ELSE sm

\* what an unchecked read past the end of vertex_descriptor can yield
Garbage == -1..MaxVerts

\* vertex_descriptor[k] : unchecked std::vector access
Descriptors(k) ==
  IF InRange(k, Len(vertex_descriptor)) THEN {vertex_descriptor[k + 1]} ELSE Garbage

\* lines 46-56 : one pass of the face loop.  No index is validated; an index
\* outside [0, |V|) is an out-of-bounds read, which either aborts the process
\* or goes on with whatever was read
AddFace ==
  /\ m_pc = "add_faces"
  /\ m_ii < Len(faces)
  /\ LET f == faces[m_ii + 1]
     IN \/ /\ \E k \in 1..3 : ~InRange(f[k], Len(vertices))
           /\ m_pc' = "crashed"
           /\ UNCHANGED <<surface_mesh, face_descriptor, m_ii>>
        \/ \E v1 \in Descriptors(f[1]), v2 \in Descriptors(f[2]),
              v3 \in Descriptors(f[3]) :
             /\ surface_mesh' = add_face(surface_mesh, v1, v2, v3)
             /\ face_descriptor' = Append(face_descriptor, <<v1, v2, v3>>)
             /\ m_ii' = m_ii + 1
             /\ UNCHANGED m_pc
  /\ UNCHANGED <<main_vars, arg_V, arg_F, vertices, faces, polyhedron,
                 vertex_descriptor>>

\* line 45 fails : the constructor returns its object
FacesDone ==
  /\ m_pc = "add_faces"
  /\ ~(m_ii < Len(faces))
  /\ m_pc' = "constructed"
  /\ UNCHANGED <<main_vars, arg_V, arg_F, vertices, faces, polyhedron,
                 surface_mesh, vertex_descriptor, face_descriptor, m_ii>>

NextMesh ==
  \/ MeshData
  \/ build_polyhedron
  \/ AddVertex
  \/ VerticesDone
  \/ AddFace
  \/ FacesDone

SpecMesh == InitMesh /\ [][NextMesh]_vars

WellFormedFace(f, n) ==
  /\ \A k \in 1..3 : InRange(f[k], n)
  /\ f[1] # f[2] /\ f[2] # f[3] /\ f[1] # f[3]

Malformed(V, F) == \E i \in DOMAIN F : ~WellFormedFace(F[i], Len(V))

\* C7: construction from (V, F) with a face index outside [0, |V|) or a face
\* with a repeated index fails and yields no mesh object; it succeeds only
\* when every face has three distinct in-range indices
C7_MalformedRejected == m_pc = "constructed" => ~Malformed(arg_V, arg_F)
====
